---- MODULE Spec2Model ----
(***************************************************************************)
(* A model of background.py: the acquisition scheduler                     *)
(* (fetch_and_save_data) and the request-queue worker (worker), two        *)
(* asyncio tasks of one event loop that share a Redis connection.          *)
(*                                                                         *)
(* Values.  Python values are records tagged by the field t, so that       *)
(* values of different Python types can be compared.  A str is a sequence  *)
(* of tokens; a token stands for a run of characters without the           *)
(* separator "/" (a whole date such as "2024-01-01").                      *)
(***************************************************************************)
EXTENDS Integers, Sequences, FiniteSets, TLC

\* ------------------------------------------------------------------ bounds

\* Entries the external producer puts on request_queue during a run.
MaxRequests == 2

\* Sweeps of the scheduler during a run.
MaxSweeps == 2

\* The days of a window: the length of the code's range(100), line 74,
\* scaled down.
WindowDays == 2

\* The acquisition-plan API has features for the days 1..MaxPlanDay.
MaxPlanDay == 1

\* Calls to PostgreSQL and Redis that fail during a run.
MaxFaults == 1

\* Tokens of a string given to convert_to_rfc3339.
MaxLen == 3

\* lon and lat given to build_square are in -MaxCoord..MaxCoord, delta in
\* -MaxDelta..MaxDelta (thousandths of a degree).
MaxCoord == 2

MaxDelta == 2

\* Steps of the clock of the Redis server during a run.
MaxTicks == 2


\* ---------------------------------------------------------- Python values

None == [t |-> "None"]

PyList(s) == [t |-> "list", v |-> s]

NOT_FOUND == [t |-> "dict", message |-> "not found"]

Raise(e) == [t |-> "raise", exc |-> e]

Ok(v) == [t |-> "ok", v |-> v]

\* A test that only None fails.
TruthyNotNone(x) == x.t # "None"

\* Python truthiness of the values the two loops test.
Truthy(x) ==
    CASE x.t = "None" -> FALSE
      [] x.t = "list" -> x.v # <<>>
      [] x.t = "str"  -> x.v # <<>>
      [] x.t = "int"  -> x.v # 0
      [] OTHER        -> TRUE

\* json.dumps: the JSON text of a value; json.dumps(None) is the text null,
\* here the JSON text of None.
JsonDumps(x) == [t |-> "json", of |-> x]

\* json.loads of a queue entry: the decoded object, or JSONDecodeError.
JsonLoads(text) ==
    IF text.t = "json" THEN Ok(text.of) ELSE Raise("JSONDecodeError")

\* int(x) that takes nothing but an int.
PyIntStrict(x) ==
    CASE x.t = "int"    -> Ok(x.v)
      [] OTHER          -> Raise("ValueError")

\* int(x): an int stays, a float is cut to its whole part, a str of digits
\* is parsed, any other str raises.
PyInt(x) ==
    CASE x.t = "int"    -> Ok(x.v)
      [] x.t = "float"  -> Ok(x.whole)
      [] x.t = "digits" -> Ok(x.v)
      [] OTHER          -> Raise("ValueError")

\* ------------------------------------------------- utilities (pure code)

DELTA == 4   \* 0.004 degrees, in thousandths of a degree

\* A ring that is left open.
build_square_open(lon, lat, delta) ==
    LET c1 == <<lon + delta, lat + delta>>
        c2 == <<lon + delta, lat - delta>>
        c3 == <<lon - delta, lat - delta>>
        c4 == <<lon - delta, lat + delta>>
    IN  [type |-> "Polygon", coordinates |-> << <<c1, c2, c3, c4>> >>]

build_square(lon, lat, delta) ==
    LET c1 == <<lon + delta, lat + delta>>
        c2 == <<lon + delta, lat - delta>>
        c3 == <<lon - delta, lat - delta>>
        c4 == <<lon - delta, lat + delta>>
    IN  [type |-> "Polygon", coordinates |-> << <<c1, c2, c3, c4, c1>> >>]

\* str.split('/') on a sequence of tokens: the segments between separators.
RECURSIVE SplitSlash(_)
SplitSlash(s) ==
    IF \A i \in 1..Len(s) : s[i] # "/"
    THEN << s >>
    ELSE LET k == CHOOSE i \in 1..Len(s) :
                     s[i] = "/" /\ \A j \in 1..(i - 1) : s[j] # "/"
         IN  << SubSeq(s, 1, k - 1) >> \o SplitSlash(SubSeq(s, k + 1, Len(s)))

EXTRA_PART == "T00:00:00Z"

convert_to_rfc3339(date_str) ==
    LET dates == SplitSlash(date_str)
    IN  IF Len(dates) < 2
        THEN Raise("IndexError")
        ELSE Ok(dates[1] \o <<EXTRA_PART>> \o <<"/">> \o dates[2] \o <<EXTRA_PART>>)

\* --------------------------------------------------------------- state

VARIABLES
    \* Redis
    queue,        \* the list request_queue: entries [eid, data], front first
    cache,        \* key -> [value, ex]; a key outside DOMAIN cache is absent
    \* the producer (external)
    produced,     \* number of entries put on the queue so far
    \* worker(redis)
    workerPc,     \* "lpop", "post", "set", "sleep", "crashed"
    workerReq,    \* request_id of the request being processed, or None
    workerCall,   \* the awaited call: its arguments, or None
    workerFault,  \* the external call that failed in the worker's last step
    \* history of the worker, per queue entry
    response,     \* eid -> what the catalog search answered, or None
    pops,         \* eid -> number of times the entry was popped
    writes,       \* eid -> number of writes made to result:<request id>
    \* PostgreSQL and the wall clock
    progress,     \* api_acqusitiondatesinfo: rows in the order of insertion
    clockDay,     \* the day datetime.now() falls on
    faults,       \* calls to PostgreSQL and Redis that have failed so far
    \* fetch_and_save_data(redis)
    schedPc,      \* "start", "reading", "get", "insert", "set", "sleep", "crashed"
    sweep,        \* passes of the while loop begun
    satIdx,       \* index in SATELLITES of the satellite of the for loop
    iter,         \* iterations of range(100) begun for that satellite
    date,         \* the local variable date: the cursor
    features,     \* data["features"] of the answer being saved, or None
    schedCall,    \* the call in progress: its arguments, or None
    schedFault,   \* the external call that failed in the scheduler's last step
    \* history of the scheduler, for the window of the current satellite
    lastDate,     \* what get_the_last_date returned
    windowStart,  \* the cursor the window started from
    probes,       \* the days requested from the API, in order
    lastWindow,   \* per satellite, for its latest window (cur) and the one
                  \* before (prev): the record the window started from if
                  \* every answer of the window was an empty 200, else None
    \* the clock of the Redis server
    redisTime,    \* seconds since the process started
    ticks,        \* steps the clock has made
    written,      \* key -> the time of the latest SET of the key (kept
                  \* when the entry expires)
    \* a call of one of the utilities by itself
    utilCall,     \* the function and its arguments, or None
    utilRet,      \* what it returned, or None before it has
    \* the bot and its database
    users,        \* the table users: a set of rows
    botData,      \* context.bot_data['lang_message_id'], or None
    event,        \* the latest update handled (or call made) and its outcome
    replaced      \* chat -> "no", or what the row that start replaced was
                  \* ("blank": no language, "chosen"), until save_lang
                  \* stores a language

workerVars ==
    <<queue, cache, produced, workerPc, workerReq, workerCall, workerFault,
      response, pops, writes>>

schedVars ==
    <<progress, clockDay, schedPc, sweep, satIdx, iter, date, features,
      schedCall, schedFault, lastDate, windowStart, probes, lastWindow>>

timeVars == <<redisTime, ticks, written>>

utilVars == <<utilCall, utilRet>>

botVars == <<users, botData, event, replaced>>

\* cache belongs to both: it is listed with the worker's variables.
vars == <<workerVars, schedVars, faults, timeVars, utilVars, botVars>>

Entries == 1..MaxRequests

\* ------------------------------------------------------- the producer

Str(s) == [t |-> "str", v |-> s]

IntV(n) == [t |-> "int", v |-> n]

\* The time_range strings a producer sends: a range, and a single date.
TimeRanges ==
    { Str(<<"2024-01-01", "/", "2024-01-02">>), Str(<<"2024-01-01">>) }

\* The objects a producer encodes (lon and lat in thousandths of a degree):
\* the documented request, one whose cloud bound is the number 50.5, one
\* whose cloud bound is a word, and one without the field time_range.
RequestObjects(id) ==
    { [request_id |-> id, lon |-> 10000, lat |-> 20000, min_cloud |-> IntV(0),
       max_cloud |-> [t |-> "float", whole |-> 50, frac |-> 5],
       time_range |-> Str(<<"2024-01-01", "/", "2024-01-02">>)] }
    \cup
    { [request_id |-> id, lon |-> 10000, lat |-> 20000, min_cloud |-> IntV(0),
       max_cloud |-> [t |-> "digits", v |-> 50], time_range |-> tr] :
          tr \in TimeRanges }
    \cup
    { [request_id |-> id, lon |-> 10000, lat |-> 20000, min_cloud |-> IntV(0),
       max_cloud |-> Str(<<"high">>), time_range |-> Str(<<"2024-01-01", "/", "2024-01-02">>)] }
    \cup
    { [request_id |-> id, lon |-> 10000, lat |-> 20000, min_cloud |-> IntV(0),
       max_cloud |-> IntV(50)] }

\* What is put on the queue: the JSON text of an object, or text that is
\* no JSON.
QueueData(id) ==
    { JsonDumps(o) : o \in RequestObjects(id) } \cup { [t |-> "text"] }

\* The producer pushes an entry at the back of request_queue.  eid is the
\* position of the entry in the order of production; a request's id is
\* unique and is taken to be that position.
Produce ==
    /\ produced < MaxRequests
    /\ \E d \in QueueData(produced + 1) :
          queue' = Append(queue, [eid |-> produced + 1, data |-> d])
    /\ produced' = produced + 1
    /\ UNCHANGED <<cache, workerPc, workerReq, workerCall, workerFault,
                   response, pops, writes>>
    /\ UNCHANGED <<schedVars, faults, timeVars, utilVars, botVars>>

\* ------------------------------------------------------------ worker

RESULT_EX == 120

STAC_URL == "https://landsatlook.usgs.gov/stac-server/search"

\* A result key without the prefix.
ResultKeyBare(request_id) == Str(<<request_id>>)

\* f"result:{request_id}"
ResultKey(request_id) == Str(<<"result:", request_id>>)

\* worker, lines 224-230: the decoded request, or the exception raised.
DecodeRequest(data) ==
    LET loaded == JsonLoads(data) IN
    IF loaded.t = "raise" THEN loaded
    ELSE LET request == loaded.v IN
         IF ~ ({"request_id", "lon", "lat", "min_cloud"} \subseteq DOMAIN request)
         THEN Raise("KeyError")
         ELSE IF PyInt(request.min_cloud).t = "raise" THEN Raise("ValueError")
         ELSE IF "max_cloud" \notin DOMAIN request THEN Raise("KeyError")
         ELSE IF PyInt(request.max_cloud).t = "raise" THEN Raise("ValueError")
         ELSE IF "time_range" \notin DOMAIN request THEN Raise("KeyError")
         ELSE Ok([request_id |-> request.request_id,
                  lon        |-> request.lon,
                  lat        |-> request.lat,
                  min_cloud  |-> PyInt(request.min_cloud).v,
                  max_cloud  |-> PyInt(request.max_cloud).v,
                  time_range |-> request.time_range])

\* get_landsat_items, lines 185-197: the payload of the search, or the
\* exception convert_to_rfc3339 raises.
get_landsat_items_payload(lon, lat, time_range, min_cloud, max_cloud) ==
    LET geometry == build_square(lon, lat, DELTA)
        datetime == convert_to_rfc3339(time_range.v)
    IN  IF datetime.t = "raise" THEN datetime
        ELSE Ok([intersects  |-> geometry,
                 datetime    |-> Str(datetime.v),
                 query       |-> [gte |-> min_cloud, lte |-> max_cloud],
                 collections |-> <<"landsat-c2l2-sr">>])

\* What the catalog search answers: HTTP 200 with a JSON object that has a
\* feature list (the API's interface), another status, or a network
\* failure (an exception of session.post).
CatalogAnswers ==
    { [t |-> "response", status |-> 200, features |-> <<>>],
      [t |-> "response", status |-> 200, features |-> <<"scene-1">>],
      [t |-> "response", status |-> 500, features |-> <<>>],
      Raise("ClientError") }

\* get_landsat_items without the not-found marker.
get_landsat_items_return_list(answer) ==
    IF answer.t = "raise" THEN None
    ELSE IF answer.status = 200 THEN PyList(answer.features) ELSE None

\* get_landsat_items, lines 199-210: what it returns for an answer.
get_landsat_items_return(answer) ==
    IF answer.t = "raise" THEN None
    ELSE IF answer.status = 200
         THEN IF Truthy(PyList(answer.features))
              THEN PyList(answer.features)
              ELSE NOT_FOUND
         ELSE None

\* An iteration that polls again without the sleep of line 238.
WorkerSkipsSleep(fault) ==
    /\ workerPc' = "lpop"
    /\ workerReq' = None
    /\ workerCall' = None
    /\ workerFault' = fault

\* Lines 235-238: the iteration ends, after an exception or not, and the
\* worker sleeps.
WorkerSleeps(fault) ==
    /\ workerPc' = "sleep"
    /\ workerReq' = None
    /\ workerCall' = None
    /\ workerFault' = fault

\* The event loop runs one task at a time, and a task keeps it until it
\* awaits.  get_the_last_date and save_to_db call psycopg2 without awaiting:
\* while the scheduler is inside one of them no other task runs.
LoopFree == schedPc \notin {"reading", "insert"}

\* redis.lpop, line 222: what is left of the list.
LpopKeepsEntry(q) == q

Lpop(q) == Tail(q)

\* SET key value EX ex: the entry of the key is replaced, and its time to
\* live starts again.
RedisSet(c, key, value, ex) ==
    [k \in DOMAIN c \cup {key} |->
        IF k = key THEN [value |-> value, ex |-> ex] ELSE c[k]]

SetAt(w, key, time) ==
    [k \in DOMAIN w \cup {key} |-> IF k = key THEN time ELSE w[k]]

\* A call to PostgreSQL or Redis fails.
CallFails ==
    /\ faults < MaxFaults
    /\ faults' = faults + 1

\* Lines 222-232, up to the await of the search: lpop, decode, and the
\* synchronous head of get_landsat_items.
WorkerPop ==
    /\ workerPc = "lpop"
    /\ LoopFree
    /\ UNCHANGED <<schedVars, timeVars, utilVars, botVars>>
    /\ \/ \* redis.lpop raises
          /\ CallFails
          /\ WorkerSleeps("lpop")
          /\ UNCHANGED <<queue, cache, produced, response, pops, writes>>
       \/ \* the queue is empty: request_data is None
          /\ queue = <<>>
          /\ WorkerSleeps("none")
          /\ UNCHANGED <<queue, cache, produced, response, pops, writes, faults>>
       \/ /\ queue # <<>>
          /\ UNCHANGED faults
          /\ queue' = Lpop(queue)
          /\ pops' = [pops EXCEPT ![Head(queue).eid] = @ + 1]
          /\ LET decoded == DecodeRequest(Head(queue).data)
                 r == decoded.v
                 payload == get_landsat_items_payload(
                                r.lon, r.lat, r.time_range, r.min_cloud, r.max_cloud)
             IN  IF decoded.t = "raise" \/ payload.t = "raise"
                 THEN WorkerSleeps("none")
                 ELSE /\ workerPc' = "post"
                      /\ workerReq' = IntV(r.request_id)
                      /\ workerCall' = [op |-> "post", url |-> STAC_URL, json |-> payload.v]
                      /\ workerFault' = "none"
          /\ UNCHANGED <<cache, produced, response, writes>>

\* Lines 199-210 and 233: the search answers, get_landsat_items returns
\* and the worker awaits redis.set.
WorkerPostDone ==
    /\ workerPc = "post"
    /\ LoopFree
    /\ UNCHANGED <<schedVars, timeVars, utilVars, botVars>>
    /\ \E answer \in CatalogAnswers :
          /\ response' = [response EXCEPT ![workerReq.v] = answer]
          /\ workerCall' = [op    |-> "set",
                            key   |-> ResultKey(workerReq.v),
                            value |-> JsonDumps(get_landsat_items_return(answer)),
                            ex    |-> RESULT_EX]
          /\ workerFault' = IF answer.t = "raise" \/ answer.status # 200
                            THEN "post" ELSE "none"
    /\ workerPc' = "set"
    /\ UNCHANGED <<queue, cache, produced, workerReq, pops, writes, faults>>

\* Lines 233-236: redis.set takes effect, or raises and is caught.
WorkerSetDone ==
    /\ workerPc = "set"
    /\ LoopFree
    /\ UNCHANGED <<schedVars, redisTime, ticks, utilVars, botVars>>
    /\ \/ /\ cache' = RedisSet(cache, workerCall.key, workerCall.value, workerCall.ex)
          /\ written' = SetAt(written, workerCall.key, redisTime)
          /\ writes' = [writes EXCEPT ![workerReq.v] = @ + 1]
          /\ WorkerSleeps("none")
          /\ UNCHANGED faults
       \/ /\ CallFails
          /\ WorkerSleeps("set")
          /\ UNCHANGED <<cache, written, writes>>
    /\ UNCHANGED <<queue, produced, response, pops>>

\* Line 238: asyncio.sleep(1) returns and the loop starts over.
WorkerWake ==
    /\ workerPc = "sleep"
    /\ LoopFree
    /\ UNCHANGED <<schedVars, timeVars, utilVars, botVars>>
    /\ workerPc' = "lpop"
    /\ workerFault' = "none"
    /\ UNCHANGED <<queue, cache, produced, workerReq, workerCall, response, pops, writes, faults>>

WorkerNext == WorkerPop \/ WorkerPostDone \/ WorkerSetDone \/ WorkerWake

\* --------------------------------------------------- dates and strings

\* The times of day of the model: midnight and one other.
TimesOfDay == {"00:00:00", "14:23:11"}

\* A datetime: day is the number of its calendar day, us its microseconds
\* (0, or 1 for "not zero").
Datetime(day, time, us) == [t |-> "datetime", day |-> day, time |-> time, us |-> us]

FULL == "%Y-%m-%d %H:%M:%S"

\* datetime.strftime for the three formats of the code.  The microseconds
\* are in none of them.
Strftime(dt, fmt) ==
    CASE fmt = FULL                 -> Str(<<dt.day, dt.time>>)
      [] fmt = "%Y-%m-%dT00:00:00Z" -> Str(<<dt.day, "T00:00:00Z">>)
      [] fmt = "%Y-%m-%d"           -> Str(<<dt.day>>)

\* datetime.strptime(s, "%Y-%m-%d %H:%M:%S"): ValueError unless s is a date
\* followed by a time.
Strptime(s) ==
    IF Len(s.v) = 2 /\ s.v[2] \in TimesOfDay
    THEN Ok(Datetime(s.v[1], s.v[2], 0))
    ELSE Raise("ValueError")

\* date + timedelta(days=n)
AddDays(dt, n) == [dt EXCEPT !.day = @ + n]

\* The place of a date string in the order of text: by day, a bare date
\* before the same date followed by a time, the empty string first.
TextRank(s) ==
    IF s.v = <<>> THEN -1
    ELSE s.v[1] * 3 + (IF Len(s.v) = 1 THEN 0
                       ELSE IF s.v[2] = "00:00:00" THEN 1 ELSE 2)

\* ------------------------------------------------------- the scheduler

SATELLITES == <<"Landsat-8", "Landsat-9">>

API_URL == "https://api.spectator.earth/acquisition-plan/"

API_KEY == "SPECTATOR_API_KEY"

\* An expiry of one week for three.
FEATURES_EX_WEEK == 604800 * 1

FEATURES_EX == 604800 * 3

Row(satellite, has_info_date) ==
    [satellite |-> satellite, has_info_date |-> has_info_date]

\* The tables the process can find when it starts: no row; rows that
\* save_to_db wrote in an earlier run; a row of an earlier run for a day
\* ahead of the wall clock (the plan of the API reaches into the future);
\* and rows another writer of the table left, an empty string and a date
\* without a time.
InitialStores ==
    { <<>>,
      << Row("Landsat-8", Str(<<0, "00:00:00">>)),
         Row("Landsat-9", Str(<<1, "14:23:11">>)) >>,
      << Row("Landsat-8", Str(<<2, "00:00:00">>)) >>,
      << Row("Landsat-8", Str(<<>>)),
         Row("Landsat-9", Str(<<0>>)) >> }

\* The query with ORDER BY has_info_date ASC.
get_the_first_date(satellite) ==
    LET rows == { i \in 1..Len(progress) : progress[i].satellite = satellite }
    IN  IF rows = {} THEN None
        ELSE progress[CHOOSE i \in rows : \A j \in rows :
                 TextRank(progress[i].has_info_date)
                     <= TextRank(progress[j].has_info_date)].has_info_date

\* get_the_last_date, lines 43-52, when the query succeeds: the greatest
\* has_info_date of the satellite, or None.
get_the_last_date(satellite) ==
    LET rows == { i \in 1..Len(progress) : progress[i].satellite = satellite }
    IN  IF rows = {} THEN None
        ELSE progress[CHOOSE i \in rows : \A j \in rows :
                 TextRank(progress[j].has_info_date)
                     <= TextRank(progress[i].has_info_date)].has_info_date

\* What the acquisition-plan API answers for a satellite and a day: HTTP
\* 200 with features (the API has a plan for the first MaxPlanDay days
\* only), HTTP 200 without, another status, or a network failure.
PlanFeatures(satellite, day) == << <<satellite, day>> >>

AcquisitionAnswers(satellite, day) ==
    { [t |-> "response", status |-> 200, features |-> <<>>],
      [t |-> "response", status |-> 503, features |-> <<>>],
      Raise("ClientError") }
    \cup
    IF day \in 1..MaxPlanDay
    THEN { [t |-> "response", status |-> 200, features |-> PlanFeatures(satellite, day)] }
    ELSE {}

\* A cursor that falls back to a fixed date instead of the wall clock.
StartCursorFixed(ret, now) ==
    IF ~ Truthy(ret) THEN Ok(Datetime(0, "00:00:00", 0)) ELSE Strptime(ret)

\* Lines 69-72: the cursor a window starts from, or the exception of
\* strptime.
StartCursor(ret, now) ==
    IF ~ Truthy(ret) THEN Ok(now) ELSE Strptime(ret)

\* A row that keeps the date and drops the time of day.
save_to_db_row_midnight(satellite, dt) ==
    Row(satellite, Str(<<dt.day, "00:00:00">>))

\* save_to_db, lines 123-127: the row of the INSERT.
save_to_db_row(satellite, dt) == Row(satellite, Strftime(dt, FULL))

\* A cache key that names the satellite next to the date.
needed_date_of_satellite(d) == Str(<<d.day, SATELLITES[satIdx]>>)

\* Line 77: needed_date, the key of the features of a day in the cache.
needed_date(d) == Strftime(d, "%Y-%m-%d")

\* Line 68: the for loop reaches a satellite and calls get_the_last_date.
EnterRead(idx) ==
    /\ schedPc' = "reading"
    /\ satIdx' = idx
    /\ schedCall' = [op |-> "select", satellite |-> SATELLITES[idx]]

\* Lines 75-86: the cursor is set to d and the API is asked about it.
Probe(d) ==
    /\ date' = d
    /\ schedPc' = "get"
    /\ schedCall' = [op     |-> "get",
                     url    |-> API_URL,
                     params |-> [api_key    |-> API_KEY,
                                 satellites |-> SATELLITES[satIdx],
                                 datetime   |-> Strftime(d, "%Y-%m-%dT00:00:00Z")]]

\* The end of an iteration of range(window): the next one, the next
\* satellite, or line 100.
NextIteration(window) ==
    IF iter < window
    THEN /\ Probe(AddDays(date, 1))
         /\ iter' = iter + 1
         /\ probes' = Append(probes, date.day + 1)
         /\ UNCHANGED <<satIdx, lastDate, windowStart>>
    ELSE IF satIdx < Len(SATELLITES)
    THEN /\ EnterRead(satIdx + 1)
         /\ UNCHANGED <<date, iter, probes, lastDate, windowStart>>
    ELSE /\ schedPc' = "sleep"
         /\ schedCall' = None
         /\ UNCHANGED <<satIdx, date, iter, probes, lastDate, windowStart>>

\* An except clause that leaves the for loop of the satellite.
SchedCatchBreaks(window) ==
    IF satIdx < Len(SATELLITES)
    THEN /\ EnterRead(satIdx + 1)
         /\ UNCHANGED <<date, iter, probes, lastDate, windowStart>>
    ELSE /\ schedPc' = "sleep"
         /\ schedCall' = None
         /\ UNCHANGED <<satIdx, date, iter, probes, lastDate, windowStart>>

\* No except clause: the exception ends the task.
SchedCatchRaises(window) ==
    /\ schedPc' = "crashed"
    /\ schedCall' = None
    /\ UNCHANGED <<satIdx, date, iter, probes, lastDate, windowStart>>

\* Lines 97-98: an exception of the iteration is logged and the iteration
\* ends.
SchedCatch(window) == NextIteration(window)

\* A status other than 200 that ends the window of the satellite.
SchedNot200Breaks(window) ==
    IF satIdx < Len(SATELLITES)
    THEN /\ EnterRead(satIdx + 1)
         /\ UNCHANGED <<date, iter, probes, lastDate, windowStart>>
    ELSE /\ schedPc' = "sleep"
         /\ schedCall' = None
         /\ UNCHANGED <<satIdx, date, iter, probes, lastDate, windowStart>>

\* Lines 95-96: a status other than 200 is logged and the iteration ends.
SchedNot200(window) == NextIteration(window)

\* Lines 65-68 and 100: the task starts, or asyncio.sleep(3600*3) returns,
\* and a sweep begins with the first satellite.  The wall clock is followed
\* by the day: midnight may pass during the three hours of the sleep.
SchedStartSweep ==
    /\ schedPc \in {"start", "sleep"}
    /\ sweep < MaxSweeps
    /\ sweep' = sweep + 1
    /\ clockDay' \in IF schedPc = "sleep" THEN {clockDay, clockDay + 1} ELSE {clockDay}
    /\ EnterRead(1)
    /\ schedFault' = "none"
    /\ UNCHANGED <<progress, iter, date, features, lastDate, windowStart, probes,
                   lastWindow>>
    /\ UNCHANGED <<workerVars, faults, timeVars, utilVars, botVars>>

\* Lines 68-86: get_the_last_date returns (None when the query raised), the
\* cursor is set and the first day of the window is requested.
SchedReadEnd ==
    /\ schedPc = "reading"
    /\ \E ok \in BOOLEAN, now \in { Datetime(clockDay, tm, 1) : tm \in TimesOfDay } :
          LET ret   == IF ok THEN get_the_last_date(SATELLITES[satIdx]) ELSE None
              start == StartCursor(ret, now)
          IN  /\ IF ok THEN UNCHANGED faults ELSE CallFails
              /\ lastDate' = ret
              /\ lastWindow' = [lastWindow EXCEPT ![satIdx] =
                                    [cur  |-> IF Truthy(ret) /\ start.t = "ok"
                                              THEN ret ELSE None,
                                     prev |-> @.cur]]
              /\ schedFault' = IF ok THEN "none" ELSE "select"
              /\ IF start.t = "raise"
                 THEN /\ schedPc' = "crashed"
                      /\ schedCall' = None
                      /\ UNCHANGED <<date, iter, probes, windowStart>>
                 ELSE /\ windowStart' = start.v
                      /\ Probe(AddDays(start.v, 1))
                      /\ iter' = 1
                      /\ probes' = << start.v.day + 1 >>
    /\ UNCHANGED <<progress, clockDay, sweep, satIdx, features>>
    /\ UNCHANGED <<workerVars, timeVars, utilVars, botVars>>

\* Lines 86-98: the API answers.  Features are saved (save_to_db is
\* entered); anything else ends the iteration.
SchedGetDone(window) ==
    /\ schedPc = "get"
    /\ \E answer \in AcquisitionAnswers(SATELLITES[satIdx], date.day) :
          /\ lastWindow' = [lastWindow EXCEPT ![satIdx].cur =
                                IF answer.t = "response" /\ answer.status = 200
                                      /\ answer.features = <<>>
                                THEN @ ELSE None]
          /\ IF answer.t = "response" /\ answer.status = 200
                   /\ Truthy(PyList(answer.features))
             THEN /\ features' = PyList(answer.features)
                  /\ schedPc' = "insert"
                  /\ schedCall' = [op  |-> "insert",
                                   row |-> save_to_db_row(SATELLITES[satIdx], date)]
                  /\ schedFault' = "none"
                  /\ UNCHANGED <<satIdx, iter, date, lastDate, windowStart, probes>>
             ELSE /\ features' = None
                  /\ schedFault' = IF answer.t = "raise" \/ answer.status # 200
                                   THEN "get" ELSE "none"
                  /\ IF answer.t = "raise" THEN SchedCatch(window)
                     ELSE IF answer.status # 200 THEN SchedNot200(window)
                     ELSE NextIteration(window)
    /\ UNCHANGED <<progress, clockDay, sweep>>
    /\ UNCHANGED <<workerVars, faults, timeVars, utilVars, botVars>>

\* save_to_db, lines 112-133, and line 91: the INSERT is committed, or an
\* exception is logged; then redis.set is awaited.
SchedInsertEnd ==
    /\ schedPc = "insert"
    /\ \E ok \in BOOLEAN :
          /\ IF ok THEN UNCHANGED faults ELSE CallFails
          /\ progress' = IF ok
                         THEN Append(progress, schedCall.row)
                         ELSE progress
          /\ schedFault' = IF ok THEN "none" ELSE "insert"
    /\ schedPc' = "set"
    /\ schedCall' = [op    |-> "set",
                     key   |-> needed_date(date),
                     value |-> JsonDumps(features),
                     ex    |-> FEATURES_EX]
    /\ UNCHANGED <<clockDay, sweep, satIdx, iter, date, features, lastDate,
                   windowStart, probes, lastWindow>>
    /\ UNCHANGED <<workerVars, timeVars, utilVars, botVars>>

\* Lines 91-98: redis.set takes effect, or raises and is caught; the
\* iteration ends.
SchedSetDone(window) ==
    /\ schedPc = "set"
    /\ \/ /\ cache' = RedisSet(cache, schedCall.key, schedCall.value, schedCall.ex)
          /\ written' = SetAt(written, schedCall.key, redisTime)
          /\ schedFault' = "none"
          /\ UNCHANGED faults
          /\ NextIteration(window)
       \/ /\ CallFails
          /\ schedFault' = "set"
          /\ UNCHANGED <<cache, written>>
          /\ SchedCatch(window)
    /\ features' = None
    /\ UNCHANGED <<progress, clockDay, sweep, lastWindow, redisTime, ticks, utilVars, botVars>>
    /\ UNCHANGED <<queue, produced, workerPc, workerReq, workerCall, workerFault,
                   response, pops, writes>>

SchedNext(window) ==
    \/ SchedStartSweep
    \/ SchedReadEnd
    \/ SchedGetDone(window)
    \/ SchedInsertEnd
    \/ SchedSetDone(window)

\* ------------------------------------------------- users table (user_orm)

\* Chats that talk to the bot.
MaxChats == 2

ChatIds == 1..MaxChats

USERS_TABLE_FIELDS == <<"chat_id", "lang", "is_main_message">>

\* The columns of CREATE TABLE users.
Columns == {"chat_id", "lang", "is_main_message"}

\* A test that everything passes.
InAnything(x, tuple) == TRUE

\* x in tuple.
InPy(x, tuple) == \E i \in DOMAIN tuple : tuple[i] = x

\* The row INSERT INTO users (chat_id) VALUES (?) makes: lang is NULL (None)
\* and is_main_message takes its default.
NewRow(chat_id) ==
    [chat_id |-> IntV(chat_id), lang |-> None, is_main_message |-> IntV(0)]

RowsOf(table, chat_id) == {r \in table : r.chat_id = IntV(chat_id)}

\* The run of one event or call: the table, context.bot_data, the number n
\* of SQL statements and m of Telegram calls made so far, the number k of
\* the SQL statement that fails (0: none does), whether Telegram cannot be
\* reached (t = 1) or can (t = 0),
\* the exception raised ("none": none; the statements after a raise are not
\* executed), the value the last get_field returned, whether
\* handle_user_lang has called its callback, and whether save_lang has
\* stored the language.
Run(table, bot_data, k, t) ==
    [users |-> table, bot_data |-> bot_data, n |-> 0, k |-> k, m |-> 0,
     t |-> t, raised |-> "none", ret |-> None, called |-> FALSE,
     saved |-> FALSE]

Raised(st, e) == [st EXCEPT !.raised = e]

\* cursor.execute of the next statement.
Execute(st) == [st EXCEPT !.n = st.n + 1]

\* The next statement raises sqlite3.Error.
SqlFails(st) == st.n + 1 = st.k

\* INSERT OR IGNORE: an existing row is kept.
create_user_keep(st, chat_id) ==
    IF st.raised # "none" THEN st
    ELSE IF SqlFails(st) \/ RowsOf(st.users, chat_id) # {} THEN Execute(st)
    ELSE [Execute(st) EXCEPT !.users = st.users \cup {NewRow(chat_id)}]

\* create_user: INSERT OR REPLACE; sqlite3.Error is caught and logged.
create_user(st, chat_id) ==
    IF st.raised # "none" THEN st
    ELSE IF SqlFails(st) THEN Execute(st)
    ELSE [Execute(st) EXCEPT
             !.users = (st.users \ RowsOf(st.users, chat_id))
                           \cup {NewRow(chat_id)}]

\* User(chat_id): __init__ and _ensure_object_exists.
User(st, chat_id) ==
    IF st.raised # "none" THEN st
    ELSE IF SqlFails(st) THEN Raised(Execute(st), "sqlite3.Error")
    ELSE IF RowsOf(st.users, chat_id) = {}
         THEN Raised(Execute(st), "ObjectDoesNotExistError")
         ELSE Execute(st)

ensure_field_exists(field) ==
    IF InPy(field, USERS_TABLE_FIELDS) THEN Ok(TRUE)
    ELSE Raise("FieldDoesNotExistError")

\* A validation that lets every name pass.
validate_nothing(field_name) == Ok(None)

validate_field_name(field_name) ==
    IF field_name = "chat_id" THEN Raise("ValidationError") ELSE Ok(None)

\* User.get_field: the value returned is ret of the run.
get_field(st, chat_id, field_name) ==
    IF st.raised # "none" THEN st
    ELSE IF ensure_field_exists(field_name).t = "raise"
    THEN Raised(st, ensure_field_exists(field_name).exc)
    ELSE IF SqlFails(st) \/ field_name \notin Columns
    THEN Raised(Execute(st), "sqlite3.Error")
    ELSE [Execute(st) EXCEPT
             !.ret = IF RowsOf(st.users, chat_id) # {}
                     THEN (CHOOSE r \in RowsOf(st.users, chat_id) : TRUE)
                              [field_name]
                     ELSE None]

\* UPDATE users SET field_name = ? WHERE chat_id = ? is refused: no such
\* column, or a chat_id that is no integer or is another row's key.
UpdateRefused(table, chat_id, field_name, new_value) ==
    \/ field_name \notin Columns
    \/ /\ field_name = "chat_id"
       /\ RowsOf(table, chat_id) # {}
       /\ \/ new_value.t # "int"
          \/ \E r \in table : r.chat_id = new_value /\ r.chat_id # IntV(chat_id)

\* User.edit_field: sqlite3.Error is caught and logged.
edit_field(st, chat_id, field_name, new_value) ==
    IF st.raised # "none" THEN st
    ELSE IF ensure_field_exists(field_name).t = "raise"
    THEN Raised(st, ensure_field_exists(field_name).exc)
    ELSE IF validate_field_name(field_name).t = "raise"
    THEN Raised(st, validate_field_name(field_name).exc)
    ELSE IF SqlFails(st)
            \/ UpdateRefused(st.users, chat_id, field_name, new_value)
    THEN Execute(st)
    ELSE [Execute(st) EXCEPT
             !.users = {IF r.chat_id = IntV(chat_id)
                        THEN [r EXCEPT ![field_name] = new_value]
                        ELSE r : r \in st.users}]

\* ------------------------------------------------- the bot (webacademy_bot)

LANG_PATTERN == "lang_"

TJ == Str(<<"tj">>)

RU == Str(<<"ru">>)

LANGUAGES == <<TJ, RU>>

\* The keys of texts.COURSES.
COURSES == {"python"}

\* s.split(sep): the segments of s between the occurrences of sep.
RECURSIVE Split(_, _)
Split(s, sep) ==
    IF \A i \in 1..Len(s) : s[i] # sep THEN <<s>>
    ELSE LET i == CHOOSE j \in 1..Len(s) :
                      s[j] = sep /\ \A h \in 1..(j - 1) : s[h] # sep
         IN  <<SubSeq(s, 1, i - 1)>> \o Split(SubSeq(s, i + 1, Len(s)), sep)

\* A call of the Telegram API: TelegramError if it cannot be reached.
Telegram(st) ==
    IF st.raised # "none" THEN st
    ELSE IF st.t # 0
    THEN Raised([st EXCEPT !.m = st.m + 1], "TelegramError")
    ELSE [st EXCEPT !.m = st.m + 1]

\* show_menu, lines 101-107: ret is the value of is_main_message.
SendOrEditMenu(st, chat_id) ==
    IF st.raised # "none" THEN st
    ELSE IF ~ Truthy(st.ret)
    THEN edit_field(Telegram(st), chat_id, "is_main_message", IntV(1))
    ELSE Telegram(st)

\* context.bot_data.pop('lang_message_id')
PopLangMessage(st) ==
    IF st.raised # "none" THEN st ELSE [st EXCEPT !.bot_data = None]

\* show_menu, lines 109-112.
DeleteLangMessage(st) ==
    IF st.raised # "none" \/ st.bot_data.t = "None" THEN st
    ELSE PopLangMessage(Telegram(st))

show_menu(st, lang, chat_id) ==
    DeleteLangMessage(
        SendOrEditMenu(
            get_field(User(st, chat_id), chat_id, "is_main_message"),
            chat_id))

show_contact_info(st, lang) == Telegram(st)

show_about_academy(st, lang) == Telegram(st)

\* data is the text of query.data after COURSES_PATTERN.
show_courses(st, lang, data) ==
    IF PyInt(data).t = "raise" THEN Raised(st, "ValueError")
    ELSE Telegram(st)

\* data is the course name in query.data.
show_course_info(st, lang, chat_id, data) ==
    IF data \notin COURSES THEN Raised(st, "KeyError")
    ELSE edit_field(User(Telegram(Telegram(st)), chat_id),
                    chat_id, "is_main_message", IntV(0))

\* handle_user_lang, lines 42-44: ret is the value of lang.
CallWithLang(st, chat_id, callback_fn, data) ==
    IF st.raised # "none" THEN st
    ELSE IF st.ret.t = "None" THEN Raised(st, "LangNotChosenError")
    ELSE CASE callback_fn = "show_menu" ->
                  show_menu([st EXCEPT !.called = TRUE], st.ret, chat_id)
           [] callback_fn = "show_contact_info" ->
                  show_contact_info([st EXCEPT !.called = TRUE], st.ret)
           [] callback_fn = "show_about_academy" ->
                  show_about_academy([st EXCEPT !.called = TRUE], st.ret)
           [] callback_fn = "show_courses" ->
                  show_courses([st EXCEPT !.called = TRUE], st.ret, data)
           [] callback_fn = "show_course_info" ->
                  show_course_info([st EXCEPT !.called = TRUE], st.ret,
                                   chat_id, data)

handle_user_lang(st, chat_id, callback_fn, data) ==
    CallWithLang(get_field(User(st, chat_id), chat_id, "lang"),
                 chat_id, callback_fn, data)

\* message.message_id of the message start sends.
MessageId == IntV(1)

\* start, line 68.
KeepLangMessage(st) ==
    IF st.raised # "none" THEN st ELSE [st EXCEPT !.bot_data = MessageId]

start(st, chat_id) ==
    Telegram(KeepLangMessage(Telegram(create_user(st, chat_id))))

main_menu(st, chat_id) == handle_user_lang(st, chat_id, "show_menu", <<>>)

\* save_lang, line 83, on the User object made.
StoreLang(st, chat_id, lang) ==
    IF st.raised # "none" THEN st
    ELSE edit_field([st EXCEPT !.saved = ~ SqlFails(st)],
                    chat_id, "lang", lang)

save_lang(st, chat_id, data) ==
    IF Len(Split(data, LANG_PATTERN)) < 2 THEN Raised(st, "IndexError")
    ELSE IF ~ InPy(Str(Split(data, LANG_PATTERN)[2]), LANGUAGES)
    THEN Raised(st, "BadRequestError")
    ELSE main_menu(StoreLang(User(st, chat_id), chat_id,
                             Str(Split(data, LANG_PATTERN)[2])),
                   chat_id)

contact_info(st, chat_id) ==
    handle_user_lang(st, chat_id, "show_contact_info", <<>>)

about_academy(st, chat_id) ==
    handle_user_lang(st, chat_id, "show_about_academy", <<>>)

courses(st, chat_id, data) ==
    handle_user_lang(st, chat_id, "show_courses", data)

course_info(st, chat_id, data) ==
    handle_user_lang(st, chat_id, "show_course_info", data)

\* The statements of an event that can fail: its first MaxSql ones.
MaxSql == 2

\* query.data of the callbacks that match LANG_PATTERN.
LangData ==
    { <<LANG_PATTERN, "ru">>, <<LANG_PATTERN, "en">>, <<LANG_PATTERN>>,
      <<LANG_PATTERN, "ru", LANG_PATTERN, "en">> }

\* The text after COURSES_PATTERN in query.data.
PageData == { [t |-> "digits", v |-> 1], Str(<<"x">>) }

CourseData == {"python", "go"}

NoEvent ==
    [handler |-> "none", chat_id |-> 0, data |-> <<>>, raised |-> "none",
     called |-> FALSE, sql |-> 0, sqlFailed |-> FALSE]

BotIdle ==
    /\ users = {}
    /\ botData = None
    /\ event = NoEvent
    /\ replaced = [c \in ChatIds |-> "no"]

NoFault == [k |-> 0, t |-> 0]

\* What can fail in an event whose run is r0 when nothing fails: one of the
\* SQL statements it executes (k), or Telegram (t) if it is called.
FaultChoices(r0) ==
    {NoFault}
        \cup {[k |-> i, t |-> 0] : i \in 1..MaxSql \cap 1..r0.n}
        \cup {[k |-> 0, t |-> 1] : j \in 1..1 \cap 1..r0.m}

\* One update is handled: r is the run of its handler.  Only a call that
\* is made can fail.
Handle(handler, chat_id, data, r) ==
    /\ users' = r.users
    /\ botData' = r.bot_data
    /\ event' = [handler |-> handler, chat_id |-> chat_id, data |-> data,
                 raised |-> r.raised, called |-> r.called, sql |-> r.n,
                 sqlFailed |-> r.k # 0]
    /\ replaced' =
          IF handler = "start" /\ r.k = 0 /\ RowsOf(users, chat_id) # {}
          THEN [replaced EXCEPT ![chat_id] =
                   IF (CHOOSE row \in RowsOf(users, chat_id) : TRUE).lang.t
                          = "None"
                   THEN "blank" ELSE "chosen"]
          ELSE IF handler = "save_lang" /\ r.saved
          THEN [replaced EXCEPT ![chat_id] = "no"]
          ELSE replaced
    /\ UNCHANGED <<workerVars, schedVars, faults, timeVars, utilVars>>

Start ==
    \E c \in ChatIds :
        \E r0 \in {start(Run(users, botData, 0, 0), c)} :
            \E f \in FaultChoices(r0) :
                \E r \in {start(Run(users, botData, f.k, f.t), c)} :
                    Handle("start", c, <<>>, r)

SaveLang ==
    \E c \in ChatIds, d \in LangData :
        \E r0 \in {save_lang(Run(users, botData, 0, 0), c, d)} :
            \E f \in FaultChoices(r0) :
                \E r \in {save_lang(Run(users, botData, f.k, f.t), c, d)} :
                    Handle("save_lang", c, d, r)

MainMenu ==
    \E c \in ChatIds :
        \E r0 \in {main_menu(Run(users, botData, 0, 0), c)} :
            \E f \in FaultChoices(r0) :
                \E r \in {main_menu(Run(users, botData, f.k, f.t), c)} :
                    Handle("main_menu", c, <<>>, r)

ContactInfo ==
    \E c \in ChatIds :
        \E r0 \in {contact_info(Run(users, botData, 0, 0), c)} :
            \E f \in FaultChoices(r0) :
                \E r \in {contact_info(Run(users, botData, f.k, f.t), c)} :
                    Handle("contact_info", c, <<>>, r)

AboutAcademy ==
    \E c \in ChatIds :
        \E r0 \in {about_academy(Run(users, botData, 0, 0), c)} :
            \E f \in FaultChoices(r0) :
                \E r \in {about_academy(Run(users, botData, f.k, f.t), c)} :
                    Handle("about_academy", c, <<>>, r)

Courses ==
    \E c \in ChatIds, d \in PageData :
        \E r0 \in {courses(Run(users, botData, 0, 0), c, d)} :
            \E f \in FaultChoices(r0) :
                \E r \in {courses(Run(users, botData, f.k, f.t), c, d)} :
                    Handle("courses", c, <<>>, r)

CourseInfo ==
    \E c \in ChatIds, d \in CourseData :
        \E r0 \in {course_info(Run(users, botData, 0, 0), c, d)} :
            \E f \in FaultChoices(r0) :
                \E r \in {course_info(Run(users, botData, f.k, f.t), c, d)} :
                    Handle("course_info", c, <<>>, r)

BotNext ==
    \/ Start
    \/ SaveLang
    \/ MainMenu
    \/ ContactInfo
    \/ AboutAcademy
    \/ Courses
    \/ CourseInfo

\* ------------------------------------------- calls of user_orm by themselves

FieldNames ==
    {"chat_id", "lang", "is_main_message", "name", "lang = NULL, chat_id"}

FieldValues == {IntV(1), RU}

\* A call of the module is made: r is its run.  The statement of the call
\* may fail.
Called(method, chat_id, field, r) ==
    /\ r.k <= r.n
    /\ users' = r.users
    /\ event' = [handler |-> method, chat_id |-> chat_id, data |-> field,
                 raised |-> r.raised, called |-> FALSE, sql |-> r.n,
                 sqlFailed |-> r.k # 0]
    /\ UNCHANGED <<workerVars, schedVars, faults, timeVars, utilVars,
                   botData, replaced>>

\* The statement of a call that fails (0: none).
StatementFails == {0, 1}

OrmCreateUser ==
    \E c \in ChatIds, k \in StatementFails :
        \E r \in {create_user(Run(users, None, k, 0), c)} :
            Called("create_user", c, "", r)

OrmUser ==
    \E c \in ChatIds, k \in StatementFails :
        \E r \in {User(Run(users, None, k, 0), c)} :
            Called("User", c, "", r)

\* The chats a User object can be made for.
Objects == {c \in ChatIds : User(Run(users, None, 0, 0), c).raised = "none"}

\* A call of get_field on a User object.
OrmGetField ==
    \E c \in Objects, f \in FieldNames, k \in StatementFails :
        \E r \in {get_field(Run(users, None, k, 0), c, f)} :
            Called("get_field", c, f, r)

\* A call of edit_field on a User object.
OrmEditField ==
    \E c \in Objects, f \in FieldNames, v \in FieldValues,
       k \in StatementFails :
        \E r \in {edit_field(Run(users, None, k, 0), c, f, v)} :
            Called("edit_field", c, f, r)

OrmNext ==
    \/ OrmCreateUser
    \/ OrmUser
    \/ OrmGetField
    \/ OrmEditField

\* ------------------------------------------------------ specifications

Init ==
    /\ queue = <<>>
    /\ cache = << >>
    /\ produced = 0
    /\ workerPc = "lpop"
    /\ workerReq = None
    /\ workerCall = None
    /\ workerFault = "none"
    /\ response = [e \in Entries |-> None]
    /\ pops = [e \in Entries |-> 0]
    /\ writes = [e \in Entries |-> 0]
    /\ progress \in InitialStores
    /\ clockDay = 0
    /\ faults = 0
    /\ schedPc = "start"
    /\ sweep = 0
    /\ satIdx = 1
    /\ iter = 0
    /\ date = None
    /\ features = None
    /\ schedCall = None
    /\ schedFault = "none"
    /\ lastDate = None
    /\ windowStart = None
    /\ probes = <<>>
    /\ lastWindow = [s \in 1..Len(SATELLITES) |-> [cur |-> None, prev |-> None]]
    /\ redisTime = 0
    /\ ticks = 0
    /\ written = << >>
    /\ utilCall = None
    /\ utilRet = None
    /\ BotIdle

\* The two tasks of main(), the producer and the stores.
Next == SchedNext(WindowDays) \/ WorkerNext \/ Produce

Spec == Init /\ [][Next]_vars

\* Each loop by itself: the runs in which the scheduler acts while the
\* worker has not yet found an entry, and those in which the worker and the
\* producer act while the scheduler has not yet started.  They are runs of
\* Spec.
WorkerQuiet == produced = 0 /\ workerPc = "lpop"

SchedUnstarted == schedPc = "start"

SoloNext ==
    \/ WorkerQuiet /\ SchedStartSweep
    \/ WorkerQuiet /\ SchedReadEnd
    \/ WorkerQuiet /\ SchedGetDone(WindowDays)
    \/ WorkerQuiet /\ SchedInsertEnd
    \/ WorkerQuiet /\ SchedSetDone(WindowDays)
    \/ SchedUnstarted /\ WorkerPop
    \/ SchedUnstarted /\ WorkerPostDone
    \/ SchedUnstarted /\ WorkerSetDone
    \/ SchedUnstarted /\ WorkerWake
    \/ SchedUnstarted /\ Produce

SoloSpec == Init /\ [][SoloNext]_vars

\* The two loops interleaved as in Spec, for the first sweep of the
\* scheduler and one request on the queue.
DuoNext ==
    \/ sweep = 0 /\ SchedStartSweep
    \/ SchedReadEnd
    \/ SchedGetDone(WindowDays)
    \/ SchedInsertEnd
    \/ SchedSetDone(WindowDays)
    \/ WorkerPop
    \/ WorkerPostDone
    \/ WorkerSetDone
    \/ WorkerWake
    \/ produced = 0 /\ Produce

DuoSpec == Init /\ [][DuoNext]_vars

\* The seconds by which the clock of the Redis server moves in one step:
\* to either side of the two expiry times.
TickSeconds == {2, 119, 1814399}

\* The entries of the cache that are alive at a time: an entry set at w
\* with EX ex is there before w + ex and gone from then on.
Expire(c, w, time) ==
    [k \in { x \in DOMAIN c : time < w[x] + c[x].ex } |-> c[k]]

\* Time passes on the Redis server, and the entries whose time to live is
\* over are gone.
Tick ==
    /\ ticks < MaxTicks
    /\ \E d \in TickSeconds :
          /\ redisTime' = redisTime + d
          /\ cache' = Expire(cache, written, redisTime + d)
    /\ ticks' = ticks + 1
    /\ UNCHANGED <<queue, produced, workerPc, workerReq, workerCall, workerFault,
                   response, pops, writes>>
    /\ UNCHANGED <<schedVars, faults, written, utilVars, botVars>>

\* The loops with the clock of Redis running: the first sweep of the
\* scheduler, or the worker with one request, and the passing of time.
TtlNext ==
    \/ WorkerQuiet /\ sweep = 0 /\ SchedStartSweep
    \/ WorkerQuiet /\ SchedReadEnd
    \/ WorkerQuiet /\ SchedGetDone(WindowDays)
    \/ WorkerQuiet /\ SchedInsertEnd
    \/ WorkerQuiet /\ SchedSetDone(WindowDays)
    \/ SchedUnstarted /\ WorkerPop
    \/ SchedUnstarted /\ WorkerPostDone
    \/ SchedUnstarted /\ WorkerSetDone
    \/ SchedUnstarted /\ WorkerWake
    \/ SchedUnstarted /\ produced = 0 /\ Produce
    \/ Tick

TtlSpec == Init /\ [][TtlNext]_vars

\* The utilities by themselves: a run is one call of build_square or of
\* convert_to_rfc3339 with arguments from a bounded set, while the loops
\* have not started.
Tokens == {"2023-01-01", "2023-01-31", "/"}

RECURSIVE StringsOfLen(_)
StringsOfLen(n) ==
    IF n = 0 THEN { <<>> }
    ELSE { Append(s, c) : s \in StringsOfLen(n - 1), c \in Tokens }

DateStrings == UNION { StringsOfLen(n) : n \in 0..MaxLen }

UtilCalls ==
    { [fn |-> "convert_to_rfc3339", date_str |-> d] : d \in DateStrings }
    \cup
    { [fn |-> "build_square", lon |-> x, lat |-> y, delta |-> d] :
          x \in -MaxCoord..MaxCoord, y \in -MaxCoord..MaxCoord,
          d \in -MaxDelta..MaxDelta }

UtilInit ==
    /\ queue = <<>>
    /\ cache = << >>
    /\ produced = 0
    /\ workerPc = "lpop"
    /\ workerReq = None
    /\ workerCall = None
    /\ workerFault = "none"
    /\ response = [e \in Entries |-> None]
    /\ pops = [e \in Entries |-> 0]
    /\ writes = [e \in Entries |-> 0]
    /\ progress = <<>>
    /\ clockDay = 0
    /\ faults = 0
    /\ schedPc = "start"
    /\ sweep = 0
    /\ satIdx = 1
    /\ iter = 0
    /\ date = None
    /\ features = None
    /\ schedCall = None
    /\ schedFault = "none"
    /\ lastDate = None
    /\ windowStart = None
    /\ probes = <<>>
    /\ lastWindow = [s \in 1..Len(SATELLITES) |-> [cur |-> None, prev |-> None]]
    /\ redisTime = 0
    /\ ticks = 0
    /\ written = << >>
    /\ utilCall \in UtilCalls
    /\ utilRet = None
    /\ BotIdle

CallConvert ==
    /\ utilRet = None
    /\ utilCall.fn = "convert_to_rfc3339"
    /\ utilRet' = convert_to_rfc3339(utilCall.date_str)
    /\ UNCHANGED <<workerVars, schedVars, faults, timeVars, utilCall, botVars>>

CallBuildSquare ==
    /\ utilRet = None
    /\ utilCall.fn = "build_square"
    /\ utilRet' = Ok(build_square(utilCall.lon, utilCall.lat, utilCall.delta))
    /\ UNCHANGED <<workerVars, schedVars, faults, timeVars, utilCall, botVars>>

UtilNext == CallConvert \/ CallBuildSquare

UtilSpec == UtilInit /\ [][UtilNext]_vars

\* The database has been created and is empty; nothing else runs.
BotInit == Init /\ progress = <<>>

\* The bot alone: updates are handled one at a time.
BotSpec == BotInit /\ [][BotNext]_vars

\* Calls of user_orm alone.
OrmSpec == BotInit /\ [][OrmNext]_vars

\* ------------------------------------------------------------- claims

SearchFailed(answer) ==
    answer.t = "raise" \/ (answer.t = "response" /\ answer.status # 200)

SearchOk(answer) == answer.t = "response" /\ answer.status = 200

InQueue(e) == \E i \in 1..Len(queue) : queue[i].eid = e

\* The worker is through with entry e: it was popped and is not the request
\* being processed.
Finished(e) == pops[e] > 0 /\ workerReq # IntV(e)

\* C1: when the catalog search of a dequeued request answers with a status
\* other than 200 or fails on the network, the worker writes nothing under
\* result:<request id>: the key stays absent from the cache.
C1_FailedSearchWritesNothing ==
    \A e \in Entries :
        SearchFailed(response[e]) => ResultKey(e) \notin DOMAIN cache

\* C2: when the catalog search of a request answers HTTP 200, the worker
\* sets result:<request id> to the JSON text of the feature list if it is
\* not empty and of the not-found marker if it is, with an expiry of 120
\* seconds; the entry is in the cache once the worker is through with the
\* request, unless a Redis call raised.
C2_OkSearchStoresResult ==
    \A e \in Entries :
        SearchOk(response[e]) =>
            LET fs       == response[e].features
                expected == IF fs # <<>> THEN PyList(fs) ELSE NOT_FOUND
                entry    == [value |-> [t |-> "json", of |-> expected], ex |-> 120]
            IN  /\ workerReq = IntV(e) =>
                       /\ workerPc = "set"
                       /\ workerCall.key = ResultKey(e)
                       /\ workerCall.value = entry.value
                       /\ workerCall.ex = entry.ex
                /\ writes[e] > 0 =>
                       /\ ResultKey(e) \in DOMAIN cache
                       /\ cache[ResultKey(e)] = entry
                /\ Finished(e) /\ writes[e] = 0 => faults > 0

\* Both cases of C2 have happened: a feature list and the not-found marker
\* are in the cache.
C2_Witness ==
    /\ SearchOk(response[1]) /\ response[1].features # <<>>
    /\ SearchOk(response[2]) /\ response[2].features = <<>>
    /\ writes[1] = 1 /\ writes[2] = 1
    /\ cache[ResultKey(2)] = [value |-> JsonDumps(NOT_FOUND), ex |-> 120]

\* C3: every queue entry is consumed at most once: it leaves the queue when
\* it is popped, it is on the queue until then and never again afterwards,
\* it is popped once, also when its processing fails, and at most one write
\* is made to result:<request id>.
C3_ConsumedOnce ==
    \A e \in Entries :
        /\ pops[e] <= 1
        /\ writes[e] <= pops[e]
        /\ Cardinality({ i \in 1..Len(queue) : queue[i].eid = e }) <= 1
        /\ InQueue(e) <=> (e <= produced /\ pops[e] = 0)

\* An entry whose search failed was popped once, is off the queue, and the
\* worker polls again.
C3_Witness ==
    /\ produced = 2
    /\ pops[1] = 1 /\ SearchFailed(response[1]) /\ ~ InQueue(1)
    /\ pops[2] = 1 /\ response[2] = None /\ ~ InQueue(2)
    /\ workerPc = "lpop"

\* C4: the worker's progress does not depend on the scheduler: whatever the
\* scheduler is doing, a worker that is due to poll a queue that holds a
\* request can take that step.
C4_WorkerNeverHeldUp ==
    (workerPc = "lpop" /\ queue # <<>> /\ DecodeRequest(Head(queue).data).t = "ok")
        => ENABLED WorkerPop

\* The greatest date of a satellite's rows when all of them are timestamps:
\* by day, then by time of day.
LatestDate(satellite) ==
    LET ds == { progress[i].has_info_date : i \in
                  { j \in 1..Len(progress) : progress[j].satellite = satellite } }
        After(a, b) == \/ a.v[1] > b.v[1]
                       \/ a.v[1] = b.v[1] /\ (a.v[2] = b.v[2] \/ b.v[2] = "00:00:00")
    IN  CHOOSE d \in ds : \A x \in ds : After(d, x)

HasDates(satellite) ==
    LET rows == { j \in 1..Len(progress) : progress[j].satellite = satellite }
    IN  /\ rows # {}
        /\ \A j \in rows : Strptime(progress[j].has_info_date).t = "ok"

\* C5: when a sweep reaches a satellite whose greatest progress record is
\* the date D and the read of the store succeeds, the first day requested
\* from the API is the day after D.
C5_FirstProbeIsDayAfterLast ==
    [][ (schedPc = "reading" /\ schedPc' # "reading" /\ schedFault' = "none"
            /\ HasDates(SATELLITES[satIdx]))
        => LET D == LatestDate(SATELLITES[satIdx])
           IN  /\ lastDate' = D
               /\ schedPc' = "get"
               /\ probes' = << D.v[1] + 1 >>
               /\ date' = Datetime(D.v[1] + 1, D.v[2], 0)
               /\ schedCall'.params.satellites = SATELLITES[satIdx]
               /\ schedCall'.params.datetime = Str(<<D.v[1] + 1, "T00:00:00Z">>) ]_vars

\* A second sweep starts Landsat-8 from the record the first sweep added.
C5_Witness ==
    /\ sweep = 2 /\ satIdx = 1 /\ schedPc = "get" /\ iter = 1
    /\ Len(progress) = 3
    /\ lastDate = Str(<<1, "00:00:00">>)
    /\ probes = <<2>>

NoRows(satellite) == \A j \in 1..Len(progress) : progress[j].satellite # satellite

\* C6: when a satellite has no progress record, or the read of the store
\* fails, get_the_last_date returns None without raising, the window starts
\* from the wall clock, the first day requested is the day after today, and
\* the sweep goes on.
C6_AbsentStartsFromNow ==
    [][ (schedPc = "reading" /\ schedPc' # "reading"
            /\ (NoRows(SATELLITES[satIdx]) \/ schedFault' = "select"))
        => /\ lastDate' = None
           /\ schedPc' = "get"
           /\ windowStart'.day = clockDay /\ windowStart'.us = 1
           /\ date'.day = clockDay + 1 /\ date'.time = windowStart'.time
           /\ probes' = << clockDay + 1 >>
           /\ schedCall'.params.datetime = Str(<<clockDay + 1, "T00:00:00Z">>) ]_vars

\* The read failed for a satellite that has a record, on the day after the
\* process started, and the window began at that day's wall clock.
C6_Witness ==
    /\ schedPc = "get" /\ schedFault = "select" /\ lastDate = None
    /\ ~ NoRows(SATELLITES[satIdx])
    /\ clockDay = 1 /\ windowStart.day = 1 /\ windowStart.time = "14:23:11"
    /\ probes = <<2>>

\* C7: when the store returns a last date that is no 'YYYY-MM-DD HH:MM:SS'
\* string, the scheduler treats it as no progress: the task goes on from
\* the wall clock.
C7_MalformedMeansNoProgress ==
    (lastDate # None /\ Strptime(lastDate).t = "raise") => schedPc # "crashed"

\* C8: no failure of an external call ends a loop: after a failed call the
\* task is at the next step of its loop, the worker never ends, and the
\* scheduler ends only in strptime, on a value that the store returned.
C8_FailuresAreCaught ==
    /\ schedFault = "get"    => schedPc \in {"get", "reading", "sleep"}
    /\ schedFault = "select" => schedPc = "get"
    /\ schedFault = "insert" => schedPc = "set"
    /\ schedFault = "set"    => schedPc \in {"get", "reading", "sleep"}
    /\ workerFault = "lpop"  => workerPc = "sleep"
    /\ workerFault = "post"  => workerPc = "set"
    /\ workerFault = "set"   => workerPc = "sleep"
    /\ workerPc # "crashed"
    /\ schedPc = "crashed" =>
           /\ schedFault = "none"
           /\ lastDate # None /\ Strptime(lastDate).t = "raise"

\* redis.set raised in the first iteration of a window and the second
\* iteration is under way.
C8_Witness ==
    /\ schedFault = "set" /\ schedPc = "get" /\ iter = 2
    /\ Strftime(AddDays(date, -1), "%Y-%m-%d") \notin DOMAIN cache

\* A window is over when the scheduler has left its last iteration.
WindowOver == windowStart # None /\ schedPc \in {"reading", "sleep", "crashed"}

\* C9: every window the scheduler runs for a satellite consists of exactly
\* WindowDays requests (100 in the code), for the consecutive days that
\* follow the start of the window, whatever the answers are: no day is
\* skipped, repeated or left out.
C9_WindowIsFixed ==
    /\ Len(probes) <= WindowDays
    /\ \A k \in 1..Len(probes) : probes[k] = windowStart.day + k
    /\ schedPc \in {"get", "insert", "set"} =>
           /\ Len(probes) = iter
           /\ date.day = windowStart.day + iter
           /\ schedPc = "get" => schedCall.params.datetime
                                    = Str(<<probes[iter], "T00:00:00Z">>)
    /\ WindowOver => Len(probes) = WindowDays

\* A sweep is over whose last request failed on the network.
C9_Witness ==
    /\ schedPc = "sleep" /\ schedFault = "get"
    /\ Len(probes) = WindowDays
    /\ probes[WindowDays] = windowStart.day + WindowDays

\* C10 as stated: after an answer with features for satellite s on day d and
\* a successful INSERT, the last row of the store is (s, d 00:00:00).
C10_RecordAtMidnight ==
    (schedPc = "set" /\ schedFault = "none") =>
        progress[Len(progress)]
            = Row(SATELLITES[satIdx], Str(<<date.day, "00:00:00">>))

\* C10, amended: after an answer with features for satellite s on day d the
\* scheduler inserts the row (s, d with the time of day of the start of the
\* window) unless the INSERT fails, and then sets the key d to the JSON text
\* of exactly those features with an expiry of 21 days unless redis.set
\* fails; a failed call leaves its store as it was.
C10_FeaturesAreSaved ==
    [][ /\ (schedPc = "get" /\ schedPc' = "insert") =>
               /\ features' = PyList(PlanFeatures(SATELLITES[satIdx], date.day))
               /\ UNCHANGED <<progress, cache, date>>
        /\ (schedPc = "insert" /\ schedPc' # "insert") =>
               /\ schedPc' = "set"
               /\ schedFault' = "none" =>
                      progress' = Append(progress,
                          Row(SATELLITES[satIdx], Str(<<date.day, windowStart.time>>)))
               /\ schedFault' # "none" => progress' = progress
               /\ UNCHANGED <<cache, date, features>>
        /\ (schedPc = "set" /\ schedPc' # "set") =>
               /\ schedFault' = "none" =>
                      /\ DOMAIN cache' = DOMAIN cache \cup {Str(<<date.day>>)}
                      /\ cache'[Str(<<date.day>>)]
                            = [value |-> [t |-> "json", of |-> features], ex |-> 1814400]
                      /\ \A k \in DOMAIN cache : k # Str(<<date.day>>) => cache'[k] = cache[k]
               /\ schedFault' # "none" => cache' = cache
               /\ UNCHANGED progress ]_vars

\* A window that started from the wall clock at 14:23:11 saved the features
\* of day 1: the row carries that time of day.
C10_Witness ==
    /\ schedPc = "get" /\ satIdx = 1 /\ iter = 2
    /\ windowStart = Datetime(0, "14:23:11", 1)
    /\ progress = << Row("Landsat-8", Str(<<1, "14:23:11">>)) >>
    /\ Str(<<1>>) \in DOMAIN cache
    /\ cache[Str(<<1>>)] = [value |-> JsonDumps(PyList(PlanFeatures("Landsat-8", 1))),
                            ex |-> 1814400]

\* The store holds a record of the satellite of the loop for the day of the
\* cursor, as save_to_db writes it.
Recorded == \E i \in 1..Len(progress) :
                progress[i] = Row(SATELLITES[satIdx], Strftime(date, FULL))

\* C11: a day has a progress record exactly when its features were written
\* to the cache: when the scheduler is through with a day that had
\* features, the record of the day is in the store if and only if the
\* features are in the cache under the day's key.
C11_RecordIffCached ==
    [][ (schedPc = "set" /\ schedPc' # "set") =>
            LET key == Str(<<date.day>>)
            IN  Recorded <=> /\ key \in DOMAIN cache'
                             /\ cache'[key].value = JsonDumps(features) ]_vars

\* The rows of a satellite that are timestamps, as save_to_db writes them.
Stamped(satellite) ==
    { i \in 1..Len(progress) : /\ progress[i].satellite = satellite
                               /\ Strptime(progress[i].has_info_date).t = "ok" }

\* C13: for each satellite the days of the progress records are
\* non-decreasing in the order of insertion: no record is inserted for a
\* day before the day of a record already in the store.
C13_DatesNeverGoBack ==
    \A s \in 1..Len(SATELLITES) :
        \A i, j \in Stamped(SATELLITES[s]) :
            i < j => progress[i].has_info_date.v[1] <= progress[j].has_info_date.v[1]

\* The cache holds, under the key of the day of the cursor, the features of
\* the satellite at index s.
CachedOf(s) ==
    /\ Str(<<date.day>>) \in DOMAIN cache
    /\ cache[Str(<<date.day>>)].value
          = JsonDumps(PyList(PlanFeatures(SATELLITES[s], date.day)))

\* C14: the cache key of a day's features is the date alone.  When the
\* features of a satellite are written for a day for which the cache holds
\* those of the other satellite, the entry is replaced: afterwards it holds
\* the features of the satellite written last and nothing of the other, and
\* no second entry appears.  The INSERT of a record keeps every record that
\* was in the store, those of the other satellite for the same day included.
C14_LastWriterWins ==
    /\ [] (schedPc = "set" => schedCall.key = Str(<<date.day>>))
    /\ [][ /\ (schedPc = "set" /\ schedPc' # "set" /\ schedFault' = "none"
                  /\ \E s \in 1..Len(SATELLITES) : s # satIdx /\ CachedOf(s))
              => /\ DOMAIN cache' = DOMAIN cache
                 /\ cache'[Str(<<date.day>>)].value
                       = JsonDumps(PyList(PlanFeatures(SATELLITES[satIdx], date.day)))
                 /\ \A k \in DOMAIN cache :
                       k # Str(<<date.day>>) => cache'[k] = cache[k]
           /\ (schedPc = "insert" /\ schedPc' # "insert" /\ schedFault' = "none")
              => /\ Len(progress') = Len(progress) + 1
                 /\ SubSeq(progress', 1, Len(progress)) = progress
                 /\ progress'[Len(progress')].satellite = SATELLITES[satIdx] ]_vars

\* Both satellites had features for day 1 in one sweep: the store has a
\* record for each, the cache one entry, with the features of Landsat-9.
C14_Witness ==
    /\ schedPc = "sleep" /\ sweep = 1
    /\ \E i \in Stamped("Landsat-8"), j \in Stamped("Landsat-9") :
          /\ progress[i].has_info_date.v[1] = 1
          /\ progress[j].has_info_date.v[1] = 1
          /\ i < j
    /\ DOMAIN cache = { Str(<<1>>) }
    /\ cache[Str(<<1>>)].value = JsonDumps(PyList(PlanFeatures("Landsat-9", 1)))

\* C16: a sweep is sequential.  The satellites are taken in the order of
\* SATELLITES, the first at the start of the sweep and the next only when
\* the window of the one before has had all its iterations; the request of
\* a day, its INSERT and its cache write follow one another, and the cursor
\* moves to the next day only when they are done; the sleep starts only
\* after the last iteration of the last satellite.
C16_SweepIsSequential ==
    [][ /\ satIdx' # satIdx =>
               \/ /\ schedPc \in {"start", "sleep"} /\ sweep' = sweep + 1
                  /\ satIdx' = 1
               \/ /\ schedPc \in {"get", "set"} /\ schedPc' = "reading"
                  /\ satIdx' = satIdx + 1
                  /\ iter = WindowDays /\ Len(probes) = WindowDays
        /\ (schedPc = "reading" /\ schedPc' = "reading") => satIdx' = satIdx
        /\ date' # date =>
               /\ schedPc \in {"reading", "get", "set"} /\ schedPc' = "get"
               /\ features' = None
               /\ schedPc # "reading" => date' = AddDays(date, 1) /\ satIdx' = satIdx
        /\ (schedPc = "get" /\ schedPc' = "insert") =>
               date' = date /\ schedCall'.row.has_info_date.v[1] = date.day
        /\ (schedPc = "insert" /\ schedPc' # "insert") =>
               /\ schedPc' = "set" /\ date' = date
               /\ schedCall'.key = Str(<<date.day>>)
        /\ (schedPc' = "sleep" /\ schedPc # "sleep") =>
               /\ schedPc \in {"get", "set"}
               /\ satIdx = Len(SATELLITES)
               /\ iter = WindowDays /\ Len(probes) = WindowDays ]_vars

\* The second sweep is over: Landsat-9 was the last satellite, its window
\* had all its iterations, and both satellites have records.
C16_Witness ==
    /\ schedPc = "sleep" /\ sweep = 2 /\ satIdx = Len(SATELLITES)
    /\ iter = WindowDays /\ Len(probes) = WindowDays
    /\ Stamped("Landsat-8") # {} /\ Stamped("Landsat-9") # {}

\* C18: the worker takes one request per iteration, from the front of the
\* queue, and is through with it (result written, or request dropped)
\* before it sleeps; it sleeps at the end of every iteration, whether it
\* found a request or not, and polls only after the sleep.  The entries
\* are therefore popped, and their results written, in the order in which
\* they were put on the queue.
C18_OneAtATimeInOrder ==
    /\ [] /\ (workerReq # None) <=> (workerPc \in {"post", "set"})
          /\ \A e1, e2 \in Entries :
                (e1 < e2 /\ pops[e2] > 0) => Finished(e1)
    /\ [][ /\ queue' # queue /\ Len(queue') <= Len(queue) =>
                  /\ workerPc = "lpop"
                  /\ queue' = Tail(queue)
                  /\ pops' = [pops EXCEPT ![Head(queue).eid] = @ + 1]
                  /\ workerPc' = "post" => workerReq' = IntV(Head(queue).eid)
           /\ (workerPc = "lpop" /\ workerPc' # "lpop") => workerPc' \in {"post", "sleep"}
           /\ (workerPc = "post" /\ workerPc' # "post") => workerPc' = "set"
           /\ (workerPc = "set" /\ workerPc' # "set") => workerPc' = "sleep"
           /\ (workerPc = "sleep" /\ workerPc' # "sleep") =>
                  workerPc' = "lpop" /\ UNCHANGED <<queue, cache, pops, writes>>
           /\ \A e \in Entries :
                 writes'[e] # writes[e] =>
                     /\ workerReq = IntV(e) /\ workerPc = "set"
                     /\ \A e1 \in Entries : e1 < e => Finished(e1)
                     /\ \A e2 \in Entries : e2 > e => pops[e2] = 0 /\ writes[e2] = 0 ]_vars

\* Two requests were taken from the queue and the result of each was
\* written; the queue is empty and the worker sleeps.
C18_Witness ==
    /\ produced = 2 /\ queue = <<>>
    /\ writes[1] = 1 /\ writes[2] = 1
    /\ pops[1] = 1 /\ pops[2] = 1
    /\ workerPc = "sleep" /\ workerReq = None
    /\ ResultKey(1) \in DOMAIN cache /\ ResultKey(2) \in DOMAIN cache

\* The two kinds of key of the cache.
IsResultKey(k) == Len(k.v) = 2 /\ k.v[1] = "result:"

IsDateKey(k) == Len(k.v) = 1

\* The entries of a cache whose keys satisfy a test.
ResultEntries(c) == [k \in { x \in DOMAIN c : IsResultKey(x) } |-> c[k]]

DateEntries(c) == [k \in { x \in DOMAIN c : IsDateKey(x) } |-> c[k]]

\* What belongs to the worker, and what belongs to the scheduler.
WorkerOwn == <<workerPc, workerReq, workerCall, workerFault, response, pops, writes>>

SchedOwn == <<schedPc, sweep, satIdx, iter, date, features, schedCall,
              schedFault, lastDate, windowStart, probes>>

\* C17: the loops touch disjoint state.  The scheduler's calls are the
\* SELECT, the API request, the INSERT and a SET of a date key: it never
\* pops the queue and never touches a result:<id> key.  The worker's calls
\* are the pop, the search and a SET of a result:<id> key: it never touches
\* the progress store or a date key.  A step of one loop leaves the other
\* loop's variables, and its part of the stores, as they were.
C17_LoopsAreDisjoint ==
    /\ [] /\ schedCall # None =>
                /\ schedCall.op \in {"select", "get", "insert", "set"}
                /\ schedCall.op = "set" => IsDateKey(schedCall.key)
          /\ workerCall # None =>
                /\ workerCall.op \in {"post", "set"}
                /\ workerCall.op = "set" => IsResultKey(workerCall.key)
          /\ \A k \in DOMAIN cache : IsDateKey(k) \/ IsResultKey(k)
    /\ [][ /\ SchedOwn' # SchedOwn =>
                  /\ UNCHANGED <<WorkerOwn, queue>>
                  /\ ResultEntries(cache') = ResultEntries(cache)
           /\ WorkerOwn' # WorkerOwn =>
                  /\ UNCHANGED <<SchedOwn, progress>>
                  /\ DateEntries(cache') = DateEntries(cache) ]_vars

\* Both loops have written to the cache, which holds an entry of each,
\* and the scheduler is in the middle of a window.
C17_Witness ==
    /\ schedPc = "get" /\ workerPc = "sleep" /\ writes[1] = 1
    /\ Str(<<1>>) \in DOMAIN cache
    /\ ResultKey(1) \in DOMAIN cache
    /\ progress # <<>>

\* C12: an HTTP 200 answer with an empty feature list changes neither
\* store: the step that takes an answer writes nothing, the stores are
\* written only by the INSERT and the SET that follow an answer with
\* features, and the list being saved is never empty.  So when a window that
\* started from the record D got only empty answers, the next sweep, when
\* its read of the store succeeds, finds D again and requests the same days
\* D+1, D+2, ... once more.
C12_EmptyDaysAreProbedAgain ==
    /\ [] /\ schedPc \in {"insert", "set"} =>
                features.t = "list" /\ features.v # <<>>
          /\ (schedPc \in {"get", "insert", "set"}
                 /\ lastWindow[satIdx].prev # None /\ lastDate # None) =>
                LET D == lastWindow[satIdx].prev
                IN  /\ lastDate = D
                    /\ windowStart = Strptime(D).v
                    /\ Len(probes) = iter
                    /\ \A k \in 1..Len(probes) : probes[k] = D.v[1] + k
    /\ [][ /\ (schedPc = "get" /\ schedPc' # "get") =>
                  UNCHANGED <<progress, cache>>
           /\ progress' # progress => schedPc = "insert"
           /\ DateEntries(cache') # DateEntries(cache) => schedPc = "set" ]_vars

\* The second sweep requests for Landsat-8 the days 1 and 2 after the
\* record of day 0, as the first sweep did, which got only empty answers.
C12_Witness ==
    /\ sweep = 2 /\ satIdx = 1 /\ schedPc = "get" /\ iter = WindowDays
    /\ lastWindow[1].prev = Str(<<0, "00:00:00">>)
    /\ lastDate = Str(<<0, "00:00:00">>)
    /\ probes = <<1, 2>>
    /\ Cardinality(Stamped("Landsat-8")) = 1
    /\ cache = << >>

C20_SquareIsClosedRing ==
    (utilRet # None /\ utilCall.fn = "build_square") =>
        LET lon  == utilCall.lon
            lat  == utilCall.lat
            d    == utilCall.delta
            g    == utilRet.v
            ring == g.coordinates[1]
        IN  /\ g.type = "Polygon"
            /\ Len(g.coordinates) = 1
            /\ Len(ring) = 5
            /\ ring[1] = <<lon + d, lat + d>>
            /\ ring[2] = <<lon + d, lat - d>>
            /\ ring[3] = <<lon - d, lat - d>>
            /\ ring[4] = <<lon - d, lat + d>>
            /\ ring[5] = ring[1]
            /\ \A k \in 1..4 : /\ ring[k][1] - lon \in {d, -d}
                               /\ ring[k][2] - lat \in {d, -d}

\* build_square(1, -1, 2) has returned.
C20_Witness ==
    /\ utilCall = [fn |-> "build_square", lon |-> 1, lat |-> -1, delta |-> 2]
    /\ utilRet # None
    /\ utilRet.v.coordinates[1][3] = <<-1, -3>>

\* The seconds since the latest SET of a key.
Age(k) == redisTime - written[k]

\* C15: an entry lives for its time to live from its latest write.  A
\* result:<id> entry is in the cache, as it was written, while fewer than
\* 120 seconds have passed since its latest SET (at 119 s) and is absent
\* once more have (at 121 s); a date entry likewise with 1814400 seconds
\* (21 days).  Once expired the key is absent from the cache, as a key
\* never written is.
C15_EntriesExpire ==
    /\ DOMAIN cache \subseteq DOMAIN written
    /\ \A k \in DOMAIN written :
          LET ttl == IF IsResultKey(k) THEN 120 ELSE 21 * 86400
          IN  /\ Age(k) <= ttl - 1 => k \in DOMAIN cache /\ cache[k].ex = ttl
              /\ Age(k) >= ttl + 1 => k \notin DOMAIN cache
    /\ \A e \in Entries :
          (writes[e] > 0 /\ Age(ResultKey(e)) <= 119) =>
              cache[ResultKey(e)].value
                  = JsonDumps(get_landsat_items_return(response[e]))

\* The result of request 1 was written at time 0; 121 seconds have passed
\* in two steps of the clock, and the key is gone.
C15_Witness ==
    /\ writes[1] = 1
    /\ written[ResultKey(1)] = 0
    /\ redisTime = 121 /\ ticks = 2
    /\ ResultKey(1) \notin DOMAIN cache

\* The text of a queue entry is no JSON, or the object lacks a field.
Undecodable(data) ==
    \/ data.t # "json"
    \/ ~ ({"request_id", "lon", "lat", "min_cloud", "max_cloud", "time_range"}
             \subseteq DOMAIN data.of)

\* A cloud bound is no integer: neither an int nor a string of digits.
NonInteger(x) == x.t \notin {"int", "digits"}

\* A cloud bound that int() does not take: a string that is no number.
NotANumber(x) == x.t \notin {"int", "digits", "float"}

\* The entry is dropped at the pop: it is off the queue, no search is
\* issued, nothing is written, and the worker sleeps.
Dropped ==
    /\ queue' = Tail(queue)
    /\ workerPc' = "sleep"
    /\ workerCall' = None /\ workerReq' = None
    /\ UNCHANGED <<cache, writes, response>>

\* A pop that takes an entry off the queue.
Pops == workerPc = "lpop" /\ queue # <<>> /\ pops' # pops

\* C21 as stated: an entry that is no JSON, lacks a field, has a cloud
\* bound that is no integer, or has a time_range without "/", is dropped
\* when it is popped.
C21_NonIntegerIsDropped ==
    [][ (Pops /\ LET data == Head(queue).data
                 IN  \/ Undecodable(data)
                     \/ NonInteger(data.of.min_cloud)
                     \/ NonInteger(data.of.max_cloud)
                     \/ \A i \in 1..Len(data.of.time_range.v) :
                           data.of.time_range.v[i] # "/")
        => Dropped ]_vars

\* C21, amended: an entry that is no JSON, lacks a field, has a cloud bound
\* that int() does not take, or has a time_range without "/", is dropped when
\* it is popped: no search is issued, no result:<id> key is written, and the
\* entry is not put back.  The worker does not end: it sleeps, and polls
\* again after the sleep.  An entry with a cloud bound such as 50.5 is not
\* dropped: its search is issued with the bound cut to 50.
C21_UnprocessableIsDropped ==
    /\ [] /\ workerPc # "crashed"
          /\ (workerPc = "sleep" /\ LoopFree) => ENABLED WorkerWake
          /\ \A e \in Entries :
                (pops[e] > 0 /\ response[e] = None /\ Finished(e)) =>
                    /\ writes[e] = 0
                    /\ ResultKey(e) \notin DOMAIN cache
                    /\ ~ InQueue(e)
    /\ [][ /\ (Pops /\ LET data == Head(queue).data
                       IN  \/ Undecodable(data)
                           \/ NotANumber(data.of.min_cloud)
                           \/ NotANumber(data.of.max_cloud)
                           \/ \A i \in 1..Len(data.of.time_range.v) :
                                 data.of.time_range.v[i] # "/")
              => Dropped
           /\ (Pops /\ ~ Undecodable(Head(queue).data)
                    /\ Head(queue).data.of.max_cloud.t = "float"
                    /\ Head(queue).data.of.min_cloud.t = "int")
              => /\ workerPc' = "post"
                 /\ workerCall'.json.query.lte = Head(queue).data.of.max_cloud.whole ]_vars

\* An entry that was no JSON was dropped, and after its sleep the worker
\* has taken the next entry, whose search is under way.
C21_Witness ==
    /\ pops[1] = 1 /\ response[1] = None /\ writes[1] = 0
    /\ ResultKey(1) \notin DOMAIN cache
    /\ pops[2] = 1 /\ workerPc = "post" /\ workerReq = IntV(2)
    /\ faults = 0

\* The members of constants.LANGUAGES.
Languages == {LANGUAGES[i] : i \in DOMAIN LANGUAGES}

\* The language a callback of save_lang names: what follows LANG_PATTERN.
NamedLang(data) == Str(Split(data, LANG_PATTERN)[2])

\* C22: after any sequence of bot events, the lang of every row of users is
\* NULL or a member of LANGUAGES; a save_lang that names a language outside
\* LANGUAGES raises BadRequestError before any SQL statement, and leaves the
\* table as it was.
C22_LangIsUnsetOrKnown ==
    /\ [] /\ \A r \in users : r.lang.t = "None" \/ r.lang \in Languages
          /\ (event.handler = "save_lang"
                  /\ NamedLang(event.data) \notin Languages)
             => event.raised = "BadRequestError" /\ event.sql = 0
    /\ [][ (event'.handler = "save_lang"
                /\ event'.raised = "BadRequestError")
           => users' = users ]_vars

\* A user whose stored language is ru has sent a save_lang that names a
\* language outside LANGUAGES: it was refused and ru is still stored.
C22_Witness ==
    /\ event.handler = "save_lang"
    /\ NamedLang(event.data) = Str(<<"en">>)
    /\ event.raised = "BadRequestError"
    /\ \E r \in RowsOf(users, event.chat_id) : r.lang = RU

MenuHandlers ==
    {"main_menu", "contact_info", "about_academy", "courses", "course_info"}

\* C23: when start is handled for a chat that has a row and the INSERT OR
\* REPLACE does not fail, the row is replaced: lang is NULL and
\* is_main_message is 0.  From then until a save_lang stores a language for
\* that chat, its lang stays NULL, and every menu handler of the chat whose
\* SQL statements do not fail raises LangNotChosenError without calling its
\* callback.
C23_StartResetsUntilSaveLang ==
    /\ (event.handler = "start" /\ ~ event.sqlFailed
            /\ replaced[event.chat_id] # "no")
       => RowsOf(users, event.chat_id) = {NewRow(event.chat_id)}
    /\ \A c \in ChatIds :
          replaced[c] # "no" =>
              /\ RowsOf(users, c) # {}
              /\ \A r \in RowsOf(users, c) : r.lang.t = "None"
    /\ (event.handler \in MenuHandlers /\ ~ event.sqlFailed
            /\ replaced[event.chat_id] # "no")
       => event.raised = "LangNotChosenError" /\ ~ event.called

\* A chat that had chosen a language was started again, and a menu callback
\* of it has since raised LangNotChosenError, while another chat has its
\* language stored.
C23_Witness ==
    /\ event.handler = "course_info"
    /\ replaced[event.chat_id] = "chosen"
    /\ event.raised = "LangNotChosenError"
    /\ ~ event.called
    /\ \E r \in users : r.chat_id # IntV(event.chat_id) /\ r.lang = RU

ChatIdsOf(table) == {r.chat_id : r \in table}

\* C24: get_field and edit_field raise FieldDoesNotExistError for every
\* field name outside ('chat_id', 'lang', 'is_main_message'), and edit_field
\* raises ValidationError for 'chat_id', before any SQL statement is
\* executed; the table is unchanged by a call that raises one of them, and
\* no call of edit_field changes the chat_id of a row.
C24_BadFieldNamesAreRejected ==
    /\ [] /\ (event.handler \in {"get_field", "edit_field"}
                  /\ event.data \notin {"chat_id", "lang", "is_main_message"})
             => event.raised = "FieldDoesNotExistError" /\ event.sql = 0
          /\ (event.handler = "edit_field" /\ event.data = "chat_id")
             => event.raised = "ValidationError" /\ event.sql = 0
    /\ [][ /\ event'.raised \in {"FieldDoesNotExistError", "ValidationError"}
              => users' = users
           /\ event'.handler = "edit_field"
              => /\ ChatIdsOf(users') = ChatIdsOf(users)
                 /\ Cardinality(users') = Cardinality(users) ]_vars

\* With two users in the table, one of them edited, edit_field was called
\* for chat_id and raised ValidationError.
C24_Witness ==
    /\ event.handler = "edit_field"
    /\ event.data = "chat_id"
    /\ event.raised = "ValidationError"
    /\ Cardinality(users) = 2
    /\ \E r \in users : r.lang = RU /\ r.is_main_message = IntV(1)

====
